---- MODULE Spec2Model ----
(***************************************************************************)
(* Model of the splinter-sabre-dataexporter event listener: the admin      *)
(* event dispatcher (process_admin_event), the circuit state streams it    *)
(* opens, the contract deployment run by a stream's on_open handler, and   *)
(* the state-change classifier (SabreProcessor).                           *)
(***************************************************************************)
EXTENDS Integers, Sequences, FiniteSets, TLC

\* ------------------------------------------------------------------------
\* Bounds of the model
\* ------------------------------------------------------------------------
MaxAdminEvents == 2
MaxStreams == 2
MaxOpens == 2
MaxBatches == 1
MaxDeliveries == 1
MaxBatchLen == 2
MaxMembers == 2
MaxTranslations == 1
MaxProducers == 2

\* ------------------------------------------------------------------------
\* Inputs: configuration, identities, events
\* ------------------------------------------------------------------------

\* node_id handed to run() at startup: the identity of the local node
LocalNodeId == "n1"

\* deployment_config().tp_prefix(): the configured 6-character prefix
TpPrefix == <<"a", "b", "c", "d", "e", "f">>

\* the two dispatchers of the repository
Dispatchers == {"event_handler", "authorization_handler"}

\* the proposals on the network: circuit id, raw key bytes of the requester
\* (0xAB 0xCD, and 0x0A whose hex needs a leading 0) and node of the requester
Proposals == {<<"c1", <<171, 205>>, "n1">>, <<"c1", <<10>>, "n2">>, <<"c2", <<10>>, "n3">>}

PK1 == <<1>>
PK2 == <<255>>
SignerKeys == {PK1, PK2}

VoteRecord(pk, n) == [public_key |-> pk, voter_node_id |-> n]

VoteLists ==
  { <<VoteRecord(PK1, "n1"), VoteRecord(PK2, "n2")>>,
    <<VoteRecord(PK2, "n2"), VoteRecord(PK2, "n3")>> }

Service(id, nodes) == [service_id |-> id, allowed_nodes |-> nodes]

Rosters ==
  { <<Service("s0", <<"n2">>)>>,
    <<Service("s2", <<"n1">>)>>,
    <<Service("s0", <<"n2">>), Service("s1", <<"n2", "n1">>), Service("s2", <<"n1">>)>> }

\* circuit.application_metadata, by what parsing makes of it
Metadata == {"valid", "garbage"}

AdminEvent(t, c, r, n, vl, s, ro, m) ==
  [type |-> t, circuit_id |-> c, requester |-> r, requester_node_id |-> n,
   votes |-> vl, signer |-> s, roster |-> ro, metadata |-> m]

VoteTypes == {"ProposalVote", "ProposalAccepted", "ProposalRejected"}

SubmittedEvents ==
  { AdminEvent("ProposalSubmitted", p[1], p[2], p[3], <<>>, <<>>, <<Service("s2", <<"n1">>)>>, m) :
      p \in Proposals, m \in Metadata }

VoteEvents ==
  { AdminEvent(t, "c2", <<10>>, "n3", vl, s, <<Service("s2", <<"n1">>)>>, "valid") :
      t \in VoteTypes, vl \in VoteLists, s \in SignerKeys }

ReadyEvents ==
  { AdminEvent("CircuitReady", p[1], p[2], p[3], <<>>, <<>>, ro, m) :
      p \in Proposals, ro \in Rosters, m \in Metadata }

AdminEvents == SubmittedEvents \cup VoteEvents \cup ReadyEvents

\* outcome of the Kafka producer for one handler call:
\*   "ok"     the producer is created and send succeeds
\*   "down"   Producer::create() fails (queue unreachable)
\*   "reject" the producer is created, send fails
QueueOutcomes == {"ok", "down", "reject"}

\* ------------------------------------------------------------------------
\* Pure functions
\* ------------------------------------------------------------------------
HexDigits ==
  <<"0", "1", "2", "3", "4", "5", "6", "7", "8", "9", "a", "b", "c", "d", "e", "f">>

\* to_hex with "{:x}" in place of "{:02x}": no leading zero
RECURSIVE to_hex_nopad(_)
to_hex_nopad(bytes) ==
  IF bytes = <<>> THEN <<>>
  ELSE (IF Head(bytes) < 16 THEN <<HexDigits[Head(bytes) + 1]>>
        ELSE <<HexDigits[(Head(bytes) \div 16) + 1], HexDigits[(Head(bytes) % 16) + 1]>>)
         \o to_hex_nopad(Tail(bytes))

RECURSIVE to_hex(_)
to_hex(bytes) ==
  IF bytes = <<>> THEN <<>>
  ELSE <<HexDigits[(Head(bytes) \div 16) + 1], HexDigits[(Head(bytes) % 16) + 1]>>
         \o to_hex(Tail(bytes))

\* a proposal record whose status is taken from the event that built it
parse_proposal_EventStatus(proposal, requester_public_key) ==
  [circuit_id |-> proposal.circuit_id,
   requester |-> requester_public_key,
   requester_node_id |-> proposal.requester_node_id,
   status |-> IF proposal.type = "CircuitReady" THEN "Accepted" ELSE "Pending"]

\* parse_proposal: the fields of the proposal record the dispatcher uses
parse_proposal(proposal, requester_public_key) ==
  [circuit_id |-> proposal.circuit_id,
   requester |-> requester_public_key,
   requester_node_id |-> proposal.requester_node_id,
   status |-> "Pending"]

\* ApplicationMetadata::from_bytes / serde_json::from_slice::<ApplicationMetadata>
MetadataParses(md) == md = "valid"

\* a find that keeps the last service listing node_id
RECURSIVE FindService_Last(_, _, _)
FindService_Last(roster, node_id, i) ==
  IF i > Len(roster) THEN 0
  ELSE LET later == FindService_Last(roster, node_id, i + 1)
       IN IF later # 0 THEN later
          ELSE IF \E k \in 1..Len(roster[i].allowed_nodes) :
                    roster[i].allowed_nodes[k] = node_id
               THEN i
               ELSE 0

\* roster.iter().find_map(..): index of the first service listing node_id, 0 if none
RECURSIVE FindService(_, _, _)
FindService(roster, node_id, i) ==
  IF i > Len(roster) THEN 0
  ELSE IF \E k \in 1..Len(roster[i].allowed_nodes) : roster[i].allowed_nodes[k] = node_id
       THEN i
       ELSE FindService(roster, node_id, i + 1)

\* a find that keeps the last vote of the signer
RECURSIVE FindVote_Last(_, _, _)
FindVote_Last(votes, signer, i) ==
  IF i > Len(votes) THEN 0
  ELSE LET later == FindVote_Last(votes, signer, i + 1)
       IN IF later # 0 THEN later
          ELSE IF votes[i].public_key = signer THEN i ELSE 0

\* a find whose predicate accepts every vote
FindVote_AnyVote(votes, signer, i) == IF i > Len(votes) THEN 0 ELSE i

\* votes.iter().find(|vote| vote.public_key == signer_public_key): index, 0 if none
RECURSIVE FindVote(_, _, _)
FindVote(votes, signer, i) ==
  IF i > Len(votes) THEN 0
  ELSE IF votes[i].public_key = signer THEN i
       ELSE FindVote(votes, signer, i + 1)

\* ------------------------------------------------------------------------
\* Outbound envelopes (proto Message: field_type + encoded payload record)
\* ------------------------------------------------------------------------
Envelope(t, k, n, c, d) ==
  [field_type |-> t, key |-> k, node_id |-> n, circuit_id |-> c, data |-> d]

\* result of one call of process_admin_event: the returned Result, the
\* records sent to Kafka, and the WebSocketClient handed to igniter.start_ws
Outcome(r, envs, ws) == [result |-> r, envs |-> envs, ws |-> ws]

\* a send that is tried again until the record is written
SendRecord_Retry(q, env) == Outcome("Ok", <<env>>, <<>>)

\* producer.send(&Record::from_value(&topic, to_send_bytes)) followed by Ok(())
SendRecord(q, env) ==
  IF q = "ok" THEN Outcome("Ok", <<env>>, <<>>) ELSE Outcome("Err", <<>>, <<>>)

\* SabreProcessor::new of the event_handler: contract_address is tp_prefix
SabreProcessor(circuit_id, node_id, requester) ==
  [circuit_id |-> circuit_id, node_id |-> node_id, requester |-> requester,
   contract_address |-> TpPrefix]

\* WebSocketClient::new(".../scabbard/{circuit_id}/{service_id}/ws/subscribe", ..)
\* with its on_open and on_error handlers, before the connection is made;
\* target is the circuit and service that on_open hands to setup_tp
WebSocketClient(processor, circuit_id, service_id) ==
  [processor |-> processor, endpoint |-> <<circuit_id, service_id>>,
   target |-> <<circuit_id, service_id>>,
   state |-> "Connecting", deploys |-> 0, deploy |-> "none"]

\* igniter.start_ws(&xo_ws).map_err(EventHandlerError::from)
StartWs(start_ok, ws) ==
  IF start_ok THEN Outcome("Ok", <<>>, <<ws>>) ELSE Outcome("Err", <<>>, <<>>)

\* ------------------------------------------------------------------------
\* event_handler::process_admin_event, arm by arm
\* ------------------------------------------------------------------------
\* the ProposalSubmitted arm without the early return of parse_consortium
ProposalSubmittedArm_NoMetadataCheck(msg, q) ==
  LET requester == to_hex(msg.requester)
      proposal == parse_proposal(msg, requester)
  IN SendRecord(q, Envelope("PROPOSAL_SUBMIT", requester,
                            proposal.requester_node_id, proposal.circuit_id, <<>>))

ProposalSubmittedArm(msg, q) ==
  LET requester == to_hex(msg.requester)
      proposal == parse_proposal(msg, requester)
  IN IF ~MetadataParses(msg.metadata) THEN Outcome("Err", <<>>, <<>>)
     ELSE SendRecord(q, Envelope("PROPOSAL_SUBMIT", requester,
                                 proposal.requester_node_id, proposal.circuit_id, <<>>))

VoteArm(msg, q, field_type) ==
  LET i == FindVote(msg.votes, msg.signer, 1)
  IN IF i = 0 THEN Outcome("Err", <<>>, <<>>)
     ELSE SendRecord(q, Envelope(field_type, to_hex(msg.signer),
                                 msg.votes[i].voter_node_id, msg.circuit_id, <<>>))

ProposalVoteArm(msg, q) == VoteArm(msg, q, "PROPOSAL_VOTE")

\* the accept arm with the message type of the vote arm it was copied from
ProposalAcceptedArm_VoteType(msg, q) == VoteArm(msg, q, "PROPOSAL_VOTE")

ProposalAcceptedArm(msg, q) == VoteArm(msg, q, "PROPOSAL_ACCEPT")

ProposalRejectedArm(msg, q) == VoteArm(msg, q, "PROPOSAL_REJECT")

\* the CircuitReady arm without the early return on unparseable metadata
CircuitReadyArm_NoMetadataCheck(msg, node_id, q, start_ok) ==
  LET i == FindService(msg.roster, node_id, 1)
      requester == to_hex(msg.requester)
      proposal == parse_proposal(msg, requester)
      sent == SendRecord(q, Envelope("PROPOSAL_READY", requester,
                                     proposal.requester_node_id, proposal.circuit_id, <<>>))
      processor == SabreProcessor(msg.circuit_id, proposal.requester_node_id,
                                  proposal.requester)
      started == StartWs(start_ok,
                         WebSocketClient(processor, msg.circuit_id, msg.roster[i].service_id))
  IN IF i = 0 THEN Outcome("Ok", <<>>, <<>>)
     ELSE IF sent.result = "Err" THEN sent
     ELSE Outcome(started.result, sent.envs, started.ws)

\* the CircuitReady arm publishing PROPOSAL_READY before the service lookup
CircuitReadyArm_SendFirst(msg, node_id, q, start_ok) ==
  LET i == FindService(msg.roster, node_id, 1)
      requester == to_hex(msg.requester)
      proposal == parse_proposal(msg, requester)
      sent == SendRecord(q, Envelope("PROPOSAL_READY", requester,
                                     proposal.requester_node_id, proposal.circuit_id, <<>>))
      processor == SabreProcessor(msg.circuit_id, proposal.requester_node_id,
                                  proposal.requester)
      started == StartWs(start_ok,
                         WebSocketClient(processor, msg.circuit_id, msg.roster[i].service_id))
  IN IF sent.result = "Err" THEN sent
     ELSE IF i = 0 THEN Outcome("Ok", sent.envs, <<>>)
     ELSE IF ~MetadataParses(msg.metadata) THEN Outcome("Err", sent.envs, <<>>)
     ELSE Outcome(started.result, sent.envs, started.ws)

\* the CircuitReady arm parsing the metadata after PROPOSAL_READY is sent
CircuitReadyArm_ParseLate(msg, node_id, q, start_ok) ==
  LET i == FindService(msg.roster, node_id, 1)
      requester == to_hex(msg.requester)
      proposal == parse_proposal(msg, requester)
      sent == SendRecord(q, Envelope("PROPOSAL_READY", requester,
                                     proposal.requester_node_id, proposal.circuit_id, <<>>))
      processor == SabreProcessor(msg.circuit_id, proposal.requester_node_id,
                                  proposal.requester)
      started == StartWs(start_ok,
                         WebSocketClient(processor, msg.circuit_id, msg.roster[i].service_id))
  IN IF i = 0 THEN Outcome("Ok", <<>>, <<>>)
     ELSE IF sent.result = "Err" THEN sent
     ELSE IF ~MetadataParses(msg.metadata) THEN Outcome("Err", sent.envs, <<>>)
     ELSE Outcome(started.result, sent.envs, started.ws)

\* the CircuitReady arm starting the stream before PROPOSAL_READY is sent
CircuitReadyArm_StartFirst(msg, node_id, q, start_ok) ==
  LET i == FindService(msg.roster, node_id, 1)
      requester == to_hex(msg.requester)
      proposal == parse_proposal(msg, requester)
      sent == SendRecord(q, Envelope("PROPOSAL_READY", requester,
                                     proposal.requester_node_id, proposal.circuit_id, <<>>))
      processor == SabreProcessor(msg.circuit_id, proposal.requester_node_id,
                                  proposal.requester)
      started == StartWs(start_ok,
                         WebSocketClient(processor, msg.circuit_id, msg.roster[i].service_id))
  IN IF i = 0 THEN Outcome("Ok", <<>>, <<>>)
     ELSE IF ~MetadataParses(msg.metadata) THEN Outcome("Err", <<>>, <<>>)
     ELSE IF started.result = "Err" THEN started
     ELSE Outcome(sent.result, sent.envs, started.ws)

CircuitReadyArm(msg, node_id, q, start_ok) ==
  LET i == FindService(msg.roster, node_id, 1)
      requester == to_hex(msg.requester)
      proposal == parse_proposal(msg, requester)
      sent == SendRecord(q, Envelope("PROPOSAL_READY", requester,
                                     proposal.requester_node_id, proposal.circuit_id, <<>>))
      processor == SabreProcessor(msg.circuit_id, proposal.requester_node_id,
                                  proposal.requester)
      started == StartWs(start_ok,
                         WebSocketClient(processor, msg.circuit_id, msg.roster[i].service_id))
  IN IF i = 0 THEN Outcome("Ok", <<>>, <<>>)
     ELSE IF ~MetadataParses(msg.metadata) THEN Outcome("Err", <<>>, <<>>)
     ELSE IF sent.result = "Err" THEN sent
     ELSE Outcome(started.result, sent.envs, started.ws)

process_admin_event(admin_event, node_id, q, start_ok) ==
  IF q = "down" THEN Outcome("Err", <<>>, <<>>)
  ELSE CASE admin_event.type = "ProposalSubmitted" -> ProposalSubmittedArm(admin_event, q)
         [] admin_event.type = "ProposalVote" -> ProposalVoteArm(admin_event, q)
         [] admin_event.type = "ProposalAccepted" -> ProposalAcceptedArm(admin_event, q)
         [] admin_event.type = "ProposalRejected" -> ProposalRejectedArm(admin_event, q)
         [] admin_event.type = "CircuitReady" ->
              CircuitReadyArm(admin_event, node_id, q, start_ok)

\* ------------------------------------------------------------------------
\* authorization_handler::process_admin_event: no producer, no envelope
\* ------------------------------------------------------------------------
\* a vote arm that does not look the signer up in the vote list
AuthVoteArm_NoLookup(msg) == Outcome("Ok", <<>>, <<>>)

AuthVoteArm(msg) ==
  IF FindVote(msg.votes, msg.signer, 1) = 0 THEN Outcome("Err", <<>>, <<>>)
  ELSE Outcome("Ok", <<>>, <<>>)

AuthCircuitReadyArm(msg, node_id, start_ok) ==
  LET i == FindService(msg.roster, node_id, 1)
      proposal == parse_proposal(msg, to_hex(msg.requester))
      processor == SabreProcessor(msg.circuit_id, proposal.requester_node_id,
                                  proposal.requester)
  IN IF i = 0 THEN Outcome("Ok", <<>>, <<>>)
     ELSE IF ~MetadataParses(msg.metadata) THEN Outcome("Err", <<>>, <<>>)
     ELSE StartWs(start_ok,
                  WebSocketClient(processor, msg.circuit_id, msg.roster[i].service_id))

auth_process_admin_event(admin_event, node_id, start_ok) ==
  CASE admin_event.type = "ProposalSubmitted" ->
         IF ~MetadataParses(admin_event.metadata) THEN Outcome("Err", <<>>, <<>>)
         ELSE Outcome("Ok", <<>>, <<>>)
    [] admin_event.type \in VoteTypes -> AuthVoteArm(admin_event)
    [] admin_event.type = "CircuitReady" ->
         AuthCircuitReadyArm(admin_event, node_id, start_ok)

\* ------------------------------------------------------------------------
\* State-change records and the classifier (SabreProcessor)
\* ------------------------------------------------------------------------
PayloadKey == TpPrefix \o <<"0", "1">>
OtherKey == <<"z", "z", "z", "z", "z", "z", "0", "1">>
ShortKey == <<"a", "b", "c">>

SetChange(k, v) == [kind |-> "Set", key |-> k, value |-> v]
DeleteChange(k) == [kind |-> "Delete", key |-> k, value |-> <<>>]

StateChanges ==
  { SetChange(TpPrefix, <<7>>), SetChange(PayloadKey, <<1, 2>>),
    SetChange(OtherKey, <<7>>), SetChange(ShortKey, <<7>>), DeleteChange(PayloadKey) }

\* result of handling state changes: the Result ("Panic" when the handler
\* aborts on a slice out of range) and the records sent to Kafka
Delta(r, envs) == [result |-> r, envs |-> envs]

\* a send that writes the record twice
SendDelta_Twice(q, env) ==
  IF q = "ok" THEN Delta("Ok", <<env, env>>) ELSE Delta("Err", <<>>)

SendDelta(q, env) == IF q = "ok" THEN Delta("Ok", <<env>>) ELSE Delta("Err", <<>>)

\* the classifier with a prefix test where the code compares for equality
handle_state_change_StartsWith(self, change, q) ==
  IF q = "down" THEN Delta("Err", <<>>)
  ELSE IF /\ change.kind = "Set"
          /\ Len(change.key) >= Len(self.contract_address)
          /\ SubSeq(change.key, 1, Len(self.contract_address)) = self.contract_address
  THEN SendDelta(q, Envelope("CIRCUIT_CREATED", self.requester, self.node_id,
                             self.circuit_id, <<>>))
  ELSE IF change.kind = "Set" /\ Len(change.key) < 6
  THEN Delta("Panic", <<>>)
  ELSE IF change.kind = "Set" /\ SubSeq(change.key, 1, 6) = TpPrefix
  THEN SendDelta(q, Envelope("CIRCUIT_PAYLOAD", self.requester, self.node_id,
                             self.circuit_id, change.value))
  ELSE Delta("Ok", <<>>)

\* the classifier dropping the value of a payload record
handle_state_change_NoData(self, change, q) ==
  IF q = "down" THEN Delta("Err", <<>>)
  ELSE IF change.kind = "Set" /\ change.key = self.contract_address
  THEN SendDelta(q, Envelope("CIRCUIT_CREATED", self.requester, self.node_id,
                             self.circuit_id, <<>>))
  ELSE IF change.kind = "Set" /\ Len(change.key) < 6
  THEN Delta("Panic", <<>>)
  ELSE IF change.kind = "Set" /\ SubSeq(change.key, 1, 6) = TpPrefix
  THEN SendDelta(q, Envelope("CIRCUIT_PAYLOAD", self.requester, self.node_id,
                             self.circuit_id, <<>>))
  ELSE Delta("Ok", <<>>)

\* the classifier matching the prefix on records of any kind
handle_state_change_AnyKind(self, change, q) ==
  IF q = "down" THEN Delta("Err", <<>>)
  ELSE IF change.kind = "Set" /\ change.key = self.contract_address
  THEN SendDelta(q, Envelope("CIRCUIT_CREATED", self.requester, self.node_id,
                             self.circuit_id, <<>>))
  ELSE IF change.kind = "Set" /\ Len(change.key) < 6
  THEN Delta("Panic", <<>>)
  ELSE IF SubSeq(change.key, 1, 6) = TpPrefix
  THEN SendDelta(q, Envelope("CIRCUIT_PAYLOAD", self.requester, self.node_id,
                             self.circuit_id, change.value))
  ELSE Delta("Ok", <<>>)

handle_state_change(self, change, q) ==
  IF q = "down" THEN Delta("Err", <<>>)
  ELSE IF change.kind = "Set" /\ change.key = self.contract_address
  THEN SendDelta(q, Envelope("CIRCUIT_CREATED", self.requester, self.node_id,
                             self.circuit_id, <<>>))
  ELSE IF change.kind = "Set" /\ Len(change.key) < 6
  THEN Delta("Panic", <<>>)
  ELSE IF change.kind = "Set" /\ SubSeq(change.key, 1, 6) = TpPrefix
  THEN SendDelta(q, Envelope("CIRCUIT_PAYLOAD", self.requester, self.node_id,
                             self.circuit_id, change.value))
  ELSE Delta("Ok", <<>>)

\* the batch handler going on to the later records after a record failed
RECURSIVE handle_state_changes_ContinueOnErr(_, _, _)
handle_state_changes_ContinueOnErr(self, changes, qs) ==
  IF changes = <<>> THEN Delta("Ok", <<>>)
  ELSE LET first == handle_state_change(self, Head(changes), Head(qs))
           rest == handle_state_changes_ContinueOnErr(self, Tail(changes), Tail(qs))
       IN IF first.result = "Panic" THEN first
          ELSE Delta(IF first.result = "Err" THEN "Err" ELSE rest.result,
                     first.envs \o rest.envs)

\* the batch handler publishing in the reverse of the order received
RECURSIVE handle_state_changes_Reversed(_, _, _)
handle_state_changes_Reversed(self, changes, qs) ==
  IF changes = <<>> THEN Delta("Ok", <<>>)
  ELSE LET first == handle_state_change(self, Head(changes), Head(qs))
           rest == handle_state_changes_Reversed(self, Tail(changes), Tail(qs))
       IN IF first.result # "Ok" THEN first
          ELSE Delta(rest.result, rest.envs \o first.envs)

\* changes.iter().try_for_each(|change| self.handle_state_change(change))
RECURSIVE handle_state_changes(_, _, _)
handle_state_changes(self, changes, qs) ==
  IF changes = <<>> THEN Delta("Ok", <<>>)
  ELSE LET first == handle_state_change(self, Head(changes), Head(qs))
           rest == handle_state_changes(self, Tail(changes), Tail(qs))
       IN IF first.result # "Ok" THEN first
          ELSE Delta(rest.result, first.envs \o rest.envs)

\* authorization_handler's classifier: same arms, nothing is published
auth_handle_state_change(self, change) ==
  IF change.kind = "Set" /\ change.key = self.contract_address THEN Delta("Ok", <<>>)
  ELSE IF change.kind = "Set" /\ Len(change.key) < 6 THEN Delta("Panic", <<>>)
  ELSE Delta("Ok", <<>>)

RECURSIVE auth_handle_state_changes(_, _)
auth_handle_state_changes(self, changes) ==
  IF changes = <<>> THEN Delta("Ok", <<>>)
  ELSE LET first == auth_handle_state_change(self, Head(changes))
       IN IF first.result # "Ok" THEN first
          ELSE auth_handle_state_changes(self, Tail(changes))

\* ------------------------------------------------------------------------
\* State
\* ------------------------------------------------------------------------
VARIABLES
  dispatcher,   \* which handler module run() belongs to
  admin,        \* connection state of the Admin Stream
  nAdmin,       \* number of admin events handled
  published,    \* records sent to the Kafka topic, in order
  streams,      \* the Circuit State Streams handed to igniter.start_ws, in order
  nOpens,       \* number of connections established after the first one
  nBatches,     \* number of state-change batches handled
  last,         \* the last handler call: its inputs and its outcome
  handlers,     \* per receive loop: where its on-message closure is
  producers,    \* number of Kafka producers created so far
  process       \* the process: how far main() got, and its exit status

vars == <<dispatcher, admin, nAdmin, published, streams, nOpens, nBatches, last,
          handlers, producers, process>>

NoEvent == AdminEvent("None", "c1", <<>>, "n1", <<>>, <<>>, <<>>, "valid")

\* record of one handler call: an on-message closure (kind "admin" or "batch")
\* or an on_error closure (kind "error", stream 0 being the Admin Stream)
Call(kind, i, ev, changes, qs, start_ok, result, envs, ws, err) ==
  [kind |-> kind, stream |-> i, event |-> ev, changes |-> changes, queues |-> qs,
   start_ok |-> start_ok, result |-> result, envs |-> envs, ws |-> ws, error |-> err]

\* the receive loops: that of the Admin Stream and that of a Circuit State Stream
Loops == {"admin", "stream"}

\* what run() obtains, in the order of the code, before it opens the Admin Stream
Obtained == {"config", "key", "node"}

\* the process: state NotStarted, Running or Exited, the exit status (of an
\* exited process), the step of run() that failed, what run() had obtained
Process(state, status, failed, obtained) ==
  [state |-> state, status |-> status, failed |-> failed, obtained |-> obtained]

\* the process once run() has opened the Admin Stream
Started == Process("Running", 0, "none", Obtained)

\* a receive loop between two frames: its closure is not running
Idle == [at |-> "idle", producer |-> 0,
         call |-> Call("none", 0, NoEvent, <<>>, <<>>, TRUE, "Ok", <<>>, <<>>, "none")]

Init ==
  /\ process = Started
  /\ handlers = [h \in Loops |-> Idle]
  /\ producers = 0
  /\ dispatcher \in Dispatchers
  /\ admin = "Connected"
  /\ nAdmin = 0
  /\ published = <<>>
  /\ streams = <<>>
  /\ nOpens = 0
  /\ nBatches = 0
  /\ last = Call("none", 0, NoEvent, <<>>, <<>>, TRUE, "Ok", <<>>, <<>>, "none")

\* a CircuitReady event with a roster service that lists the local node and
\* with embedded metadata that parses
Qualifies(ev) ==
  /\ ev.type = "CircuitReady"
  /\ \E i \in 1..Len(ev.roster) :
       \E k \in 1..Len(ev.roster[i].allowed_nodes) :
         ev.roster[i].allowed_nodes[k] = LocalNodeId
  /\ ev.metadata = "valid"

\* an on-message closure that closes the connection when the handler fails
RunOnMessage_CloseOnErr(result) == IF result = "Err" THEN "Close" ELSE "Empty"

\* the on-message closure of run(): the WsResponse it returns
RunOnMessage(result) == "Empty"

Dispatch(ev, q, start_ok) ==
  IF dispatcher = "event_handler"
  THEN process_admin_event(ev, LocalNodeId, q, start_ok)
  ELSE auth_process_admin_event(ev, LocalNodeId, start_ok)

\* the Admin Stream frame handler remembering the circuits it has opened a
\* stream for: a CircuitReady event of such a circuit opens no further stream
AdminMessage_OncePerCircuit(ev, q, start_ok) ==
  /\ admin = "Connected"
  /\ nAdmin < MaxAdminEvents
  /\ dispatcher # "event_handler" => q = "ok"
  /\ Dispatch(ev, q, TRUE).ws = <<>> => start_ok
  /\ LET out == Dispatch(ev, q, start_ok)
         ws == IF \E s \in 1..Len(streams) : streams[s].endpoint[1] = ev.circuit_id
               THEN <<>> ELSE out.ws
     IN /\ Len(streams) + Len(ws) <= MaxStreams
        /\ published' = published \o out.envs
        /\ streams' = streams \o ws
        /\ last' = Call("admin", 0, ev, <<>>, <<q>>, start_ok, out.result, out.envs,
                        ws, "none")
        /\ admin' = IF RunOnMessage(out.result) = "Close" THEN "Closed" ELSE admin
  /\ nAdmin' = nAdmin + 1
  /\ UNCHANGED <<process, handlers, producers, dispatcher, nOpens, nBatches>>

\* the Admin Stream frame handler with the envelopes of the event put ahead
\* of those published before
AdminMessage_PublishAhead(ev, q, start_ok) ==
  /\ admin = "Connected"
  /\ nAdmin < MaxAdminEvents
  /\ dispatcher # "event_handler" => q = "ok"
  /\ Dispatch(ev, q, TRUE).ws = <<>> => start_ok
  /\ LET out == Dispatch(ev, q, start_ok)
     IN /\ Len(streams) + Len(out.ws) <= MaxStreams
        /\ published' = out.envs \o published
        /\ streams' = streams \o out.ws
        /\ last' = Call("admin", 0, ev, <<>>, <<q>>, start_ok, out.result, out.envs,
                        out.ws, "none")
        /\ admin' = admin
  /\ nAdmin' = nAdmin + 1
  /\ UNCHANGED <<process, handlers, producers, dispatcher, nOpens, nBatches>>

\* one frame of the Admin Stream: the closure of run() calls process_admin_event
\* (an outcome of the queue or of igniter.start_ws is drawn only when the
\* handler gets to use it)
AdminMessage(ev, q, start_ok) ==
  /\ admin = "Connected"
  /\ nAdmin < MaxAdminEvents
  /\ dispatcher # "event_handler" => q = "ok"
  /\ Dispatch(ev, q, TRUE).ws = <<>> => start_ok
  /\ LET out == Dispatch(ev, q, start_ok)
     IN /\ Len(streams) + Len(out.ws) <= MaxStreams
        /\ published' = published \o out.envs
        /\ streams' = streams \o out.ws
        /\ last' = Call("admin", 0, ev, <<>>, <<q>>, start_ok, out.result, out.envs,
                        out.ws, "none")
        /\ admin' = IF RunOnMessage(out.result) = "Close" THEN "Closed" ELSE admin
  /\ nAdmin' = nAdmin + 1
  /\ UNCHANGED <<process, handlers, producers, dispatcher, nOpens, nBatches>>

\* ------------------------------------------------------------------------
\* Circuit State Streams
\* ------------------------------------------------------------------------

\* xo_ws.on_open closure: setup_tp builds and signs the batch, then the
\* submit future is handed to the reactor with ctx.igniter().send(future)
OnOpen(setup_ok, send_ok) ==
  IF ~setup_ok THEN [resp |-> "Close", deploy |-> "build_failed"]
  ELSE IF ~send_ok THEN [resp |-> "Close", deploy |-> "send_failed"]
  ELSE [resp |-> "Empty", deploy |-> "pending"]

\* a connection of stream i is established: on_open runs once
StreamOpen(i, setup_ok, send_ok) ==
  /\ i \in 1..Len(streams)
  /\ streams[i].state = "Connecting"
  /\ nOpens < MaxOpens
  /\ setup_ok \/ send_ok
  /\ LET o == OnOpen(setup_ok, send_ok)
     IN streams' = [streams EXCEPT ![i] =
          [@ EXCEPT !.state = IF o.resp = "Close" THEN "Closed" ELSE "Connected",
                    !.deploys = @ + 1,
                    !.deploy = o.deploy]]
  /\ nOpens' = nOpens + 1
  /\ UNCHANGED <<process, handlers, producers, dispatcher, admin, nAdmin, published, nBatches, last>>

\* the submit future of setup_tp completes on the reactor
DeployResult(i, ok) ==
  /\ i \in 1..Len(streams)
  /\ streams[i].deploy = "pending"
  /\ streams' = [streams EXCEPT ![i].deploy = IF ok THEN "submitted" ELSE "submit_failed"]
  /\ UNCHANGED <<process, handlers, producers, dispatcher, admin, nAdmin, published, nOpens, nBatches, last>>

WebSocketErrors == {"ParserError", "ReconnectError", "Other"}

\* an on_error closure that restarts the connection on every error
OnError_AlwaysRestart(err) == "start_ws"

\* xo_ws.on_error closure: what it does with the error
OnError(err) ==
  IF err = "ParserError" THEN "close"
  ELSE IF err = "ReconnectError" THEN "close"
  ELSE "start_ws"

\* an error on a connected stream is delivered to its on_error handler
StreamError(i, err) ==
  /\ i \in 1..Len(streams)
  /\ streams[i].state = "Connected"
  /\ streams' = [streams EXCEPT ![i].state =
                   IF OnError(err) = "start_ws" THEN "Connecting" ELSE "Closed"]
  /\ last' = Call("error", i, NoEvent, <<>>, <<>>, TRUE, "Ok", <<>>, <<>>, err)
  /\ UNCHANGED <<process, handlers, producers, dispatcher, admin, nAdmin, published, nOpens, nBatches>>

\* an Admin Stream error handler that takes the Circuit State Streams down
\* with the Admin Stream
AdminError_ClosesAll(err) ==
  /\ admin = "Connected"
  /\ admin' = IF OnError(err) = "start_ws" THEN "Connecting" ELSE "Closed"
  /\ streams' = [i \in 1..Len(streams) |->
                  [streams[i] EXCEPT !.state = IF OnError(err) = "start_ws" THEN @
                                               ELSE "Closed"]]
  /\ last' = Call("error", 0, NoEvent, <<>>, <<>>, TRUE, "Ok", <<>>, <<>>, err)
  /\ UNCHANGED <<process, handlers, producers, dispatcher, nAdmin, published, nOpens, nBatches>>

\* an error on the connected Admin Stream is delivered to ws.on_error, which
\* matches on the error in the same way
AdminError(err) ==
  /\ admin = "Connected"
  /\ admin' = IF OnError(err) = "start_ws" THEN "Connecting" ELSE "Closed"
  /\ last' = Call("error", 0, NoEvent, <<>>, <<>>, TRUE, "Ok", <<>>, <<>>, err)
  /\ UNCHANGED <<process, handlers, producers, dispatcher, nAdmin, published, streams, nOpens, nBatches>>

\* the connection restarted by ctx.start_ws() is established (the Admin
\* Stream has no on_open closure)
AdminOpen ==
  /\ admin = "Connecting"
  /\ nOpens < MaxOpens
  /\ admin' = "Connected"
  /\ nOpens' = nOpens + 1
  /\ UNCHANGED <<process, handlers, producers, dispatcher, nAdmin, published, streams, nBatches, last>>

\* the frames of a stream: batches of at most n state-change records
Batches(n) == UNION { [1..k -> StateChanges] : k \in 1..n }

\* record k of the batch is reached: every record before it returned Ok
Reached(self, changes, qs, k) ==
  \A j \in 1..(k - 1) : handle_state_change(self, changes[j], qs[j]).result = "Ok"

\* a frame handled with the processor of the stream opened last, as if the
\* streams shared one processor
StateChangeMessage_LatestProcessor(i, changes, qs) ==
  /\ i \in 1..Len(streams)
  /\ streams[i].state = "Connected"
  /\ \A k \in 1..Len(changes) :
       (dispatcher # "event_handler"
          \/ ~Reached(streams[Len(streams)].processor, changes, qs, k))
         => qs[k] = "ok"
  /\ LET out == IF dispatcher = "event_handler"
                THEN handle_state_changes(streams[Len(streams)].processor, changes, qs)
                ELSE auth_handle_state_changes(streams[Len(streams)].processor, changes)
     IN /\ published' = published \o out.envs
        /\ last' = Call("batch", i, NoEvent, changes, qs, TRUE, out.result, out.envs, <<>>,
                        "none")
        /\ streams' = [streams EXCEPT ![i].state =
                         IF out.result = "Panic" THEN "Aborted" ELSE @]
  /\ nBatches' = nBatches + 1
  /\ UNCHANGED <<process, handlers, producers, dispatcher, admin, nAdmin, nOpens>>

\* one frame of a Circuit State Stream: its closure calls handle_state_changes
\* (a queue outcome is drawn for each record the handler gets to)
StateChangeMessage(i, changes, qs) ==
  /\ i \in 1..Len(streams)
  /\ streams[i].state = "Connected"
  /\ \A k \in 1..Len(changes) :
       (dispatcher # "event_handler" \/ ~Reached(streams[i].processor, changes, qs, k))
         => qs[k] = "ok"
  /\ LET out == IF dispatcher = "event_handler"
                THEN handle_state_changes(streams[i].processor, changes, qs)
                ELSE auth_handle_state_changes(streams[i].processor, changes)
     IN /\ published' = published \o out.envs
        /\ last' = Call("batch", i, NoEvent, changes, qs, TRUE, out.result, out.envs, <<>>,
                        "none")
        /\ streams' = [streams EXCEPT ![i].state =
                         IF out.result = "Panic" THEN "Aborted" ELSE @]
  /\ nBatches' = nBatches + 1
  /\ UNCHANGED <<process, handlers, producers, dispatcher, admin, nAdmin, nOpens>>

Next ==
  \/ \E ev \in AdminEvents, q \in QueueOutcomes, start_ok \in BOOLEAN :
       AdminMessage(ev, q, start_ok)
  \/ \E i \in 1..MaxStreams, setup_ok \in BOOLEAN, send_ok \in BOOLEAN :
       StreamOpen(i, setup_ok, send_ok)
  \/ \E i \in 1..MaxStreams, ok \in BOOLEAN : DeployResult(i, ok)
  \/ \E i \in 1..MaxStreams, err \in WebSocketErrors : StreamError(i, err)
  \/ \E err \in WebSocketErrors : AdminError(err)
  \/ AdminOpen
  \/ \E i \in 1..MaxStreams, changes \in Batches(1) :
       \E qs \in [1..Len(changes) -> QueueOutcomes] :
         nBatches < MaxBatches /\ StateChangeMessage(i, changes, qs)

\* the whole listener, with frames of one state-change record
Spec == Init /\ [][Next]_vars

\* ------------------------------------------------------------------------
\* The classifier on its own: one Circuit State Stream, opened by a
\* qualifying CircuitReady event and connected, receives frames of up to
\* MaxBatchLen records
\* ------------------------------------------------------------------------
InitDelta ==
  /\ process = Started
  /\ handlers = [h \in Loops |-> Idle]
  /\ producers = 0
  /\ dispatcher \in Dispatchers
  /\ admin = "Connected"
  /\ nAdmin = 1
  /\ nOpens = 1
  /\ nBatches = 0
  /\ \E ev \in {e \in ReadyEvents : Qualifies(e)} :
       LET out == Dispatch(ev, "ok", TRUE)
       IN /\ published = out.envs
          /\ streams = <<[out.ws[1] EXCEPT !.state = "Connected", !.deploys = 1,
                                           !.deploy = "submitted"]>>
          /\ last = Call("admin", 0, ev, <<>>, <<"ok">>, TRUE, out.result, out.envs,
                         out.ws, "none")

NextDelta ==
  \E changes \in Batches(MaxBatchLen) :
    \E qs \in [1..Len(changes) -> QueueOutcomes] :
      nBatches < MaxDeliveries /\ StateChangeMessage(1, changes, qs)

SpecDelta == InitDelta /\ [][NextDelta]_vars


\* ------------------------------------------------------------------------
\* The records process_admin_event builds from an event (proposal, services,
\* members), on top of the envelope it publishes
\* ------------------------------------------------------------------------
SplinterNode(id, endpoint) == [node_id |-> id, endpoint |-> endpoint]

\* circuit.members of a proposal: up to MaxMembers nodes, repeats allowed
MemberLists ==
  UNION { [1..k -> {SplinterNode("n1", "tcp://n1"), SplinterNode("n2", "tcp://n2")}] :
            k \in 0..MaxMembers }

\* the service records with allowed_nodes reversed
parse_splinter_services_Reversed(circuit_id, splinter_services) ==
  [k \in 1..Len(splinter_services) |->
     [circuit_id |-> circuit_id,
      service_id |-> splinter_services[k].service_id,
      allowed_nodes |->
        [j \in 1..Len(splinter_services[k].allowed_nodes) |->
           splinter_services[k].allowed_nodes[
             Len(splinter_services[k].allowed_nodes) + 1 - j]],
      status |-> "Pending"]]

parse_splinter_services(circuit_id, splinter_services) ==
  [k \in 1..Len(splinter_services) |->
     [circuit_id |-> circuit_id,
      service_id |-> splinter_services[k].service_id,
      allowed_nodes |-> splinter_services[k].allowed_nodes,
      status |-> "Pending"]]

parse_splinter_nodes(circuit_id, splinter_nodes) ==
  [k \in 1..Len(splinter_nodes) |->
     [circuit_id |-> circuit_id,
      node_id |-> splinter_nodes[k].node_id,
      endpoint |-> splinter_nodes[k].endpoint,
      status |-> "Pending"]]

Records(proposals, services, nodes) ==
  [proposals |-> proposals, services |-> services, nodes |-> nodes]

\* the records one call of process_admin_event builds, in the order of the
\* code: the producer first (event_handler), then the arm of the event
process_admin_event_records(admin_event, members, node_id, q) ==
  LET proposal == parse_proposal(admin_event, to_hex(admin_event.requester))
  IN IF q = "down" THEN Records(<<>>, <<>>, <<>>)
     ELSE CASE admin_event.type = "ProposalSubmitted" ->
                 IF ~MetadataParses(admin_event.metadata)
                 THEN Records(<<proposal>>, <<>>, <<>>)
                 ELSE Records(<<proposal>>,
                              parse_splinter_services(admin_event.circuit_id,
                                                      admin_event.roster),
                              parse_splinter_nodes(admin_event.circuit_id, members))
            [] admin_event.type \in VoteTypes -> Records(<<>>, <<>>, <<>>)
            [] admin_event.type = "CircuitReady" ->
                 IF FindService(admin_event.roster, node_id, 1) = 0
                 THEN Records(<<>>, <<>>, <<>>)
                 ELSE IF ~MetadataParses(admin_event.metadata)
                 THEN Records(<<>>, <<>>, <<>>)
                 ELSE Records(<<proposal>>, <<>>, <<>>)

\* ProposalSubmitted events with every roster of the model
RosterSubmittedEvents ==
  { AdminEvent("ProposalSubmitted", p[1], p[2], p[3], <<>>, <<>>, ro, m) :
      p \in Proposals, ro \in Rosters, m \in Metadata }

\* one frame of the Admin Stream, with the member list of the event's circuit
\* and the records the handler builds (members are drawn only for an event
\* whose handling gets to parse_splinter_nodes)
TranslateMessage(ev, members, q, start_ok) ==
  /\ admin = "Connected"
  /\ nAdmin < MaxTranslations
  /\ dispatcher # "event_handler" => q = "ok"
  /\ process_admin_event_records(ev, <<SplinterNode("n1", "tcp://n1")>>,
                                 LocalNodeId, q).nodes = <<>> => members = <<>>
  /\ Dispatch(ev, q, TRUE).ws = <<>> => start_ok
  /\ LET out == Dispatch(ev, q, start_ok)
     IN /\ Len(streams) + Len(out.ws) <= MaxStreams
        /\ published' = published \o out.envs
        /\ streams' = streams \o out.ws
        /\ last' = Call("admin", 0, ev, <<>>, <<q>>, start_ok, out.result, out.envs,
                        out.ws, "none")
                     @@ [members |-> members,
                         records |-> process_admin_event_records(ev, members,
                                                                 LocalNodeId, q)]
        /\ admin' = IF RunOnMessage(out.result) = "Close" THEN "Closed" ELSE admin
  /\ nAdmin' = nAdmin + 1
  /\ UNCHANGED <<process, handlers, producers, dispatcher, nOpens, nBatches>>

NextRecords ==
  \E ev \in AdminEvents \cup RosterSubmittedEvents, members \in MemberLists,
     q \in QueueOutcomes, start_ok \in BOOLEAN :
    TranslateMessage(ev, members, q, start_ok)

\* the Admin Stream alone, with the records built from its events
SpecRecords == Init /\ [][NextRecords]_vars


\* ------------------------------------------------------------------------
\* The publish of a handler call, step by step: the closure creates its
\* producer, and producer.send runs inside the closure until the queue
\* answers; the two receive loops run on the reactor side by side
\* ------------------------------------------------------------------------

\* a producer shared by every handler call
NewProducer_Shared(n) == 1

\* Producer::from_hosts(..).create(): each call makes a producer of its own
NewProducer(n) == n + 1

\* the Admin Stream closure is entered with an event: the producer is
\* created and the arm runs up to its producer.send, if it has one to reach
AdminBegin(ev, q, start_ok) ==
  /\ handlers["admin"].at = "idle"
  /\ admin = "Connected"
  /\ producers < MaxProducers
  /\ Dispatch(ev, q, TRUE).ws = <<>> => start_ok
  /\ LET out == Dispatch(ev, q, start_ok)
         call == Call("admin", 0, ev, <<>>, <<q>>, start_ok, out.result, out.envs,
                      out.ws, "none")
         sends == q # "down" /\ Dispatch(ev, "ok", TRUE).envs # <<>>
     IN /\ Len(streams) + Len(out.ws) <= MaxStreams
        /\ producers' = producers + 1
        /\ IF sends
           THEN /\ handlers' = [handlers EXCEPT !["admin"] =
                                  [at |-> "sending",
                                   producer |-> NewProducer(producers),
                                   call |-> call]]
                /\ UNCHANGED <<published, streams, last, nAdmin>>
           ELSE /\ published' = published \o out.envs
                /\ streams' = streams \o out.ws
                /\ last' = call
                /\ nAdmin' = nAdmin + 1
                /\ UNCHANGED handlers
  /\ UNCHANGED <<process, dispatcher, admin, nOpens, nBatches>>

\* producer.send of the Admin Stream closure returns: the arm finishes
\* (igniter.start_ws for CircuitReady) and the closure returns
AdminEnd ==
  /\ handlers["admin"].at = "sending"
  /\ published' = published \o handlers["admin"].call.envs
  /\ streams' = streams \o handlers["admin"].call.ws
  /\ last' = handlers["admin"].call
  /\ nAdmin' = nAdmin + 1
  /\ handlers' = [handlers EXCEPT !["admin"] = Idle]
  /\ UNCHANGED <<process, dispatcher, admin, nOpens, nBatches, producers>>

\* the closure of Circuit State Stream i is entered with a frame of one record
StreamBegin(i, change, q) ==
  /\ handlers["stream"].at = "idle"
  /\ i \in 1..Len(streams)
  /\ streams[i].state = "Connected"
  /\ producers < MaxProducers
  /\ LET out == handle_state_changes(streams[i].processor, <<change>>, <<q>>)
         call == Call("batch", i, NoEvent, <<change>>, <<q>>, TRUE, out.result,
                      out.envs, <<>>, "none")
         sends == /\ q # "down"
                  /\ handle_state_changes(streams[i].processor, <<change>>,
                                          <<"ok">>).envs # <<>>
     IN /\ producers' = producers + 1
        /\ IF sends
           THEN /\ handlers' = [handlers EXCEPT !["stream"] =
                                  [at |-> "sending",
                                   producer |-> NewProducer(producers),
                                   call |-> call]]
                /\ UNCHANGED <<published, streams, last, nBatches>>
           ELSE /\ published' = published \o out.envs
                /\ streams' = [streams EXCEPT ![i].state =
                                 IF out.result = "Panic" THEN "Aborted" ELSE @]
                /\ last' = call
                /\ nBatches' = nBatches + 1
                /\ UNCHANGED handlers
  /\ UNCHANGED <<process, dispatcher, admin, nAdmin, nOpens>>

\* producer.send of the Circuit State Stream closure returns
StreamEnd ==
  /\ handlers["stream"].at = "sending"
  /\ published' = published \o handlers["stream"].call.envs
  /\ last' = handlers["stream"].call
  /\ nBatches' = nBatches + 1
  /\ handlers' = [handlers EXCEPT !["stream"] = Idle]
  /\ UNCHANGED <<process, dispatcher, admin, nAdmin, streams, nOpens, producers>>

InitPublish == InitDelta /\ dispatcher = "event_handler"

NextPublish ==
  \/ \E ev \in AdminEvents, q \in QueueOutcomes, start_ok \in BOOLEAN :
       AdminBegin(ev, q, start_ok)
  \/ AdminEnd
  \/ \E i \in 1..MaxStreams, change \in StateChanges, q \in QueueOutcomes :
       StreamBegin(i, change, q)
  \/ StreamEnd

\* the event_handler with one Circuit State Stream open, its publishes taken
\* apart into the call of producer.send and its return
SpecPublish == InitPublish /\ [][NextPublish]_vars

\* ------------------------------------------------------------------------
\* Startup: main() and run() of main.rs, with the configuration of config.rs
\* ------------------------------------------------------------------------

\* DataReaderConfigBuilder::default()
DefaultUrl == "http://127.0.0.1:8080"

DefaultConfigFile == "deployment-config.yaml"

\* what the command line gives for --splinterd-url ("None": not given)
CliUrls == {"None", "http://splinterd:8085"}

\* what is found at the path of the deployment configuration file
ConfigFiles == {"absent", "invalid", "valid"}

\* the key steps of run(): "ok", or the step that fails
KeyOutcomes == {"ok", "create_context", "new_random_private_key", "get_public_key"}

\* the inputs of one start of the process
StartupInputs ==
  [logger : BOOLEAN, cli_url : CliUrls, file : ConfigFiles, key : KeyOutcomes,
   node : BOOLEAN, start : BOOLEAN]

\* with_cli_args: matches.value_of(..), or else the value the builder holds
with_cli_args(cli, held) == IF cli # "None" THEN cli ELSE held

\* DeploymentConfig::from: no path, a file that cannot be opened and a file
\* that is no valid YAML are errors
DeploymentConfig_from(config_file, file) ==
  IF config_file = "None" THEN "Err"
  ELSE IF file = "absent" THEN "Err"
  ELSE IF file = "invalid" THEN "Err"
  ELSE "Ok"

\* DataReaderConfigBuilder::build: the URL first, then the deployment config
build(splinterd_url, config_file, file) ==
  IF splinterd_url = "None" THEN "Err"
  ELSE DeploymentConfig_from(config_file, file)

\* result of run() up to the start of the Admin Stream
Startup(result, failed, obtained, opened) ==
  [result |-> result, failed |-> failed, obtained |-> obtained, opened |-> opened]

\* a run() that starts the Admin Stream before it looks up the local node
run_StreamBeforeNode(in) ==
  IF ~in.logger THEN Startup("Err", "logger", {}, FALSE)
  ELSE IF build(with_cli_args(in.cli_url, DefaultUrl),
                with_cli_args("None", DefaultConfigFile), in.file) = "Err"
  THEN Startup("Err", "config", {}, FALSE)
  ELSE IF in.key # "ok" THEN Startup("Err", in.key, {"config"}, FALSE)
  ELSE IF ~in.start THEN Startup("Err", "start_ws", {"config", "key"}, FALSE)
  ELSE IF ~in.node THEN Startup("Err", "get_node", {"config", "key"}, TRUE)
  ELSE Startup("Ok", "none", Obtained, TRUE)

\* run(): the logger, the configuration (the command line defines no
\* argument for the configuration file, so the default path is used), the
\* key pair, the node of splinterd, then authorization_handler::run, which
\* ends with igniter.start_ws; each step returns its error with `?`
run(in) ==
  IF ~in.logger THEN Startup("Err", "logger", {}, FALSE)
  ELSE IF build(with_cli_args(in.cli_url, DefaultUrl),
                with_cli_args("None", DefaultConfigFile), in.file) = "Err"
  THEN Startup("Err", "config", {}, FALSE)
  ELSE IF in.key # "ok" THEN Startup("Err", in.key, {"config"}, FALSE)
  ELSE IF ~in.node THEN Startup("Err", "get_node", {"config", "key"}, FALSE)
  ELSE IF ~in.start THEN Startup("Err", "start_ws", Obtained, FALSE)
  ELSE Startup("Ok", "none", Obtained, TRUE)

\* main(): run() up to the started Admin Stream; on an error the error is
\* logged and the process exits with status 1
Main(in) ==
  /\ process.state = "NotStarted"
  /\ LET out == run(in)
     IN /\ process' = IF out.result = "Err"
                      THEN Process("Exited", 1, out.failed, out.obtained)
                      ELSE Process("Running", 0, "none", out.obtained)
        /\ admin' = IF out.opened THEN "Connected" ELSE admin
  /\ UNCHANGED <<handlers, producers, dispatcher, nAdmin, published, streams, nOpens,
                 nBatches, last>>

\* the rest of run(): reactor.shutdown() has returned, run() returns Ok and
\* the process ends, and its connections with it
MainReturns ==
  /\ process.state = "Running"
  /\ process' = [process EXCEPT !.state = "Exited"]
  /\ admin' = "Closed"
  /\ streams' = [i \in 1..Len(streams) |-> [streams[i] EXCEPT !.state = "Closed"]]
  /\ UNCHANGED <<handlers, producers, dispatcher, nAdmin, published, nOpens, nBatches,
                 last>>

\* before main(): nothing is open; main.rs runs the authorization handler
InitMain ==
  /\ process = Process("NotStarted", 0, "none", {})
  /\ handlers = [h \in Loops |-> Idle]
  /\ producers = 0
  /\ dispatcher = "authorization_handler"
  /\ admin = "NotStarted"
  /\ nAdmin = 0
  /\ published = <<>>
  /\ streams = <<>>
  /\ nOpens = 0
  /\ nBatches = 0
  /\ last = Call("none", 0, NoEvent, <<>>, <<>>, TRUE, "Ok", <<>>, <<>>, "none")

NextMain ==
  \/ \E in \in StartupInputs : Main(in)
  \/ \E ev \in AdminEvents, start_ok \in BOOLEAN : AdminMessage(ev, "ok", start_ok)
  \/ MainReturns

\* the process from its start: startup, then the frames of the Admin Stream
SpecMain == InitMain /\ [][NextMain]_vars

\* ------------------------------------------------------------------------
\* Properties
\* ------------------------------------------------------------------------

\* the step handles one admin event (last' is the record of that call)
AdminStep == nAdmin' = nAdmin + 1

\* no service of the event's roster lists the local node
NoLocalService(ev) ==
  \A i \in 1..Len(ev.roster) :
    \A k \in 1..Len(ev.roster[i].allowed_nodes) :
      ev.roster[i].allowed_nodes[k] # LocalNodeId

\* the signer's key is in no entry of the event's vote list
MissingVoter(ev) ==
  /\ ev.type \in VoteTypes
  /\ \A k \in 1..Len(ev.votes) : ev.votes[k].public_key # ev.signer

\* C1: a step that opens a Circuit State Stream opens exactly one, and it is
\* the handling of a CircuitReady event for the stream's circuit_id, with a
\* roster service listing the local node and with metadata that parses; no
\* other admin event and no other step opens a stream.
C1_StreamOnlyOnCircuitReady ==
  [][Len(streams') # Len(streams) =>
       /\ AdminStep
       /\ Len(streams') = Len(streams) + 1
       /\ Qualifies(last'.event)
       /\ streams'[Len(streams')].endpoint[1] = last'.event.circuit_id]_vars

C1_Witness ==
  /\ last.kind = "admin"
  /\ last.ws # <<>>
  /\ Len(streams) = 2
  /\ streams[2].endpoint[1] = last.event.circuit_id

\* C2: every processed CircuitReady event with a local roster service and
\* parseable metadata opens exactly one Circuit State Stream for its
\* circuit_id (given that the reactor accepts the stream), and no other
\* CircuitReady event opens one.
C2_QualifyingReadyOpensStream ==
  (last.kind = "admin" /\ last.event.type = "CircuitReady" /\ last.start_ok) =>
    /\ Qualifies(last.event) <=> Len(last.ws) = 1
    /\ Len(last.ws) = 1 => last.ws[1].endpoint[1] = last.event.circuit_id

\* C3: every Circuit State Stream that was opened has a deployment batch
\* that was submitted successfully (no stream is open on a failed deployment).
C3_StreamOnlyAfterDeployment ==
  \A i \in 1..Len(streams) : streams[i].deploy = "submitted"

\* C4: the deployment of one CircuitReady event (one stream) is attempted at
\* most once.
C4_DeployAtMostOnce ==
  \A i \in 1..Len(streams) : streams[i].deploys <= 1

\* C5: a CircuitReady event with no roster service for the local node
\* publishes nothing and opens no stream (hence triggers no deployment, which
\* only a stream's on_open handler runs).
C5_NoLocalServiceNoEffect ==
  [][(AdminStep /\ last'.event.type = "CircuitReady" /\ NoLocalService(last'.event)) =>
       /\ published' = published
       /\ streams' = streams
       /\ last'.envs = <<>>
       /\ last'.ws = <<>>]_vars

C5_Witness ==
  /\ last.kind = "admin"
  /\ last.event.type = "CircuitReady"
  /\ NoLocalService(last.event)
  /\ last.result = "Ok"
  /\ dispatcher = "event_handler"

\* C6: handling a CircuitReady event with no roster service for the local
\* node returns Ok, whatever the state of the queue.
C6_NoLocalServiceIsOk ==
  (last.kind = "admin" /\ last.event.type = "CircuitReady" /\ NoLocalService(last.event))
    => last.result = "Ok"

\* C7: a vote, accept or reject event whose signer is not in the vote list
\* publishes nothing and returns an error, and its handling leaves the Admin
\* Stream connected (the event is dropped, the stream goes on receiving).
C7_MissingVoterDropped ==
  [][(AdminStep /\ MissingVoter(last'.event)) =>
       /\ published' = published
       /\ last'.envs = <<>>
       /\ last'.result = "Err"
       /\ streams' = streams
       /\ admin' = "Connected"]_vars

C7_Witness ==
  /\ last.kind = "admin"
  /\ MissingVoter(last.event)
  /\ last.queues = <<"ok">>
  /\ last.result = "Err"
  /\ admin = "Connected"
  /\ nAdmin = 2

\* value of a lowercase hex digit
HexVal(ch) == CHOOSE v \in 0..15 : HexDigits[v + 1] = ch

\* h is the lowercase hex encoding of bytes: two digits per byte, in order
IsHexOf(h, bytes) ==
  /\ Len(h) = 2 * Len(bytes)
  /\ \A k \in 1..Len(h) : \E v \in 0..15 : HexDigits[v + 1] = h[k]
  /\ \A k \in 1..Len(bytes) : 16 * HexVal(h[2 * k - 1]) + HexVal(h[2 * k]) = bytes[k]

\* env is the PROPOSAL_SUBMIT envelope of event ev
IsSubmitEnvelope(env, ev) ==
  /\ env.field_type = "PROPOSAL_SUBMIT"
  /\ IsHexOf(env.key, ev.requester)
  /\ ev.requester = <<171, 205>> => env.key = <<"a", "b", "c", "d">>
  /\ env.node_id = ev.requester_node_id
  /\ env.circuit_id = ev.circuit_id

\* a ProposalSubmitted event handled by the event_handler, metadata parseable
WellFormedSubmit ==
  /\ dispatcher = "event_handler"
  /\ last.kind = "admin"
  /\ last.event.type = "ProposalSubmitted"
  /\ last.event.metadata = "valid"

\* C8 (as stated): every well-formed ProposalSubmitted event yields exactly
\* one PROPOSAL_SUBMIT envelope carrying the hex of the requester bytes, the
\* requester node id and the circuit id.
C8_SubmitYieldsOneEnvelope ==
  WellFormedSubmit => (Len(last.envs) = 1 /\ IsSubmitEnvelope(last.envs[1], last.event))

\* C8 (amended): a well-formed ProposalSubmitted event yields exactly one
\* such envelope when the producer is created and the send succeeds; when
\* either fails it yields no envelope and the handler returns an error.
C8_SubmitYieldsOneEnvelopeWhenSent ==
  WellFormedSubmit =>
    IF last.queues = <<"ok">>
    THEN /\ Len(last.envs) = 1
         /\ IsSubmitEnvelope(last.envs[1], last.event)
         /\ last.result = "Ok"
    ELSE last.envs = <<>> /\ last.result = "Err"

C8_Witness ==
  /\ WellFormedSubmit
  /\ last.event.requester = <<10>>
  /\ last.queues = <<"ok">>
  /\ Len(published) = 2
  /\ published[2] = Envelope("PROPOSAL_SUBMIT", <<"0", "a">>, "n2", "c1", <<>>)

\* the message type the dispatcher table gives for an event type
MessageTypeOf(t) ==
  CASE t = "ProposalSubmitted" -> "PROPOSAL_SUBMIT"
    [] t = "ProposalVote" -> "PROPOSAL_VOTE"
    [] t = "ProposalAccepted" -> "PROPOSAL_ACCEPT"
    [] t = "ProposalRejected" -> "PROPOSAL_REJECT"
    [] t = "CircuitReady" -> "PROPOSAL_READY"

\* C9: every envelope published while handling an admin event has the
\* message type that belongs to the event's type, whatever the event's other
\* fields, the queue outcome and the dispatcher's earlier events.
C9_MessageTypeByEventType ==
  last.kind = "admin" =>
    \A k \in 1..Len(last.envs) : last.envs[k].field_type = MessageTypeOf(last.event.type)

C9_Witness ==
  /\ last.kind = "admin"
  /\ last.event.type = "ProposalAccepted"
  /\ Len(last.envs) = 1
  /\ last.envs[1].field_type = "PROPOSAL_ACCEPT"

\* the records of the last batch that are a Set of the contract address
RootRecords ==
  {k \in 1..Len(last.changes) :
     /\ last.changes[k].kind = "Set"
     /\ last.changes[k].key = streams[last.stream].processor.contract_address}

\* the contract-created envelopes the last batch published
CreatedEnvelopes ==
  {k \in 1..Len(last.envs) : last.envs[k].field_type = "CIRCUIT_CREATED"}

\* every record of the last batch is handled and its publish succeeds
NothingFails ==
  \A k \in 1..Len(last.changes) :
    /\ last.queues[k] = "ok"
    /\ last.changes[k].kind = "Set" => Len(last.changes[k].key) >= 6

\* C10 (as stated): a batch yields one contract-created envelope for each of
\* its Set records whose key is the contract address, and for no other record.
C10_CreatedPerRootRecord ==
  (dispatcher = "event_handler" /\ last.kind = "batch") =>
    Cardinality(CreatedEnvelopes) = Cardinality(RootRecords)

\* C10 (amended): a batch never yields more contract-created envelopes than
\* it has Set records of the contract address, and it yields exactly one for
\* each of them (a repeated record included) when every record is handled
\* with the producer created and the send succeeding.
C10_CreatedPerRootRecordWhenSent ==
  (dispatcher = "event_handler" /\ last.kind = "batch") =>
    /\ Cardinality(CreatedEnvelopes) <= Cardinality(RootRecords)
    /\ NothingFails => Cardinality(CreatedEnvelopes) = Cardinality(RootRecords)

C10_Witness ==
  /\ dispatcher = "event_handler"
  /\ last.kind = "batch"
  /\ last.changes = <<SetChange(TpPrefix, <<7>>), SetChange(TpPrefix, <<7>>)>>
  /\ Len(last.envs) = 2
  /\ Cardinality(CreatedEnvelopes) = 2
  /\ Len(published) = 3

\* the processor of the stream that received the last batch
LastProcessor == streams[last.stream].processor

\* the records of the last batch that are a Set of a key other than the
\* contract address whose first 6 characters are the address prefix
PayloadRecords ==
  {k \in 1..Len(last.changes) :
     /\ last.changes[k].kind = "Set"
     /\ last.changes[k].key # LastProcessor.contract_address
     /\ Len(last.changes[k].key) >= 6
     /\ SubSeq(last.changes[k].key, 1, 6) = TpPrefix}

\* the application-payload envelopes the last batch published
PayloadEnvelopes ==
  {k \in 1..Len(last.envs) : last.envs[k].field_type = "CIRCUIT_PAYLOAD"}

\* every payload envelope of the last batch carries the value bytes of a
\* payload record of the batch, unchanged
PayloadVerbatim ==
  \A k \in PayloadEnvelopes :
    \E j \in PayloadRecords :
      /\ Len(last.envs[k].data) = Len(last.changes[j].value)
      /\ \A b \in 1..Len(last.changes[j].value) :
           last.envs[k].data[b] = last.changes[j].value[b]

\* C11 (as stated): a batch yields exactly one application-payload envelope
\* for each of its Set records whose key is not the contract address and
\* starts with the 6-character prefix, and the envelope's data is the
\* record's value verbatim.
C11_PayloadPerPrefixRecord ==
  (dispatcher = "event_handler" /\ last.kind = "batch") =>
    /\ Cardinality(PayloadEnvelopes) = Cardinality(PayloadRecords)
    /\ PayloadVerbatim

\* C11 (amended): a batch never yields more application-payload envelopes
\* than it has such records, every such envelope carries the value of such
\* a record verbatim, and the batch yields exactly one for each of them when
\* every record is handled with the producer created and the send succeeding.
C11_PayloadPerPrefixRecordWhenSent ==
  (dispatcher = "event_handler" /\ last.kind = "batch") =>
    /\ Cardinality(PayloadEnvelopes) <= Cardinality(PayloadRecords)
    /\ PayloadVerbatim
    /\ NothingFails => Cardinality(PayloadEnvelopes) = Cardinality(PayloadRecords)

C11_Witness ==
  /\ dispatcher = "event_handler"
  /\ last.kind = "batch"
  /\ last.changes = <<SetChange(PayloadKey, <<1, 2>>), SetChange(PayloadKey, <<1, 2>>)>>
  /\ Len(last.envs) = 2
  /\ last.envs[1].field_type = "CIRCUIT_PAYLOAD"
  /\ last.envs[2].data = <<1, 2>>

\* C12: Delete records and Set records whose key is neither the contract
\* address nor starts with the prefix produce no envelope: a batch publishes
\* at most one envelope for each of its other records, each of them a
\* contract-created or an application-payload envelope.
C12_UnrecognizedPublishNothing ==
  (dispatcher = "event_handler" /\ last.kind = "batch") =>
    /\ Len(last.envs) <= Cardinality(RootRecords \cup PayloadRecords)
    /\ \A k \in 1..Len(last.envs) : k \in CreatedEnvelopes \cup PayloadEnvelopes

C12_Witness ==
  /\ dispatcher = "event_handler"
  /\ last.kind = "batch"
  /\ last.changes = <<DeleteChange(PayloadKey), SetChange(OtherKey, <<7>>)>>
  /\ last.queues = <<"ok", "ok">>
  /\ last.result = "Ok"
  /\ last.envs = <<>>
  /\ Len(published) = 1

\* the envelope the classifier builds for a record, if any
EnvelopeFor(self, change) ==
  IF change.kind = "Set" /\ change.key = self.contract_address
  THEN <<Envelope("CIRCUIT_CREATED", self.requester, self.node_id, self.circuit_id, <<>>)>>
  ELSE IF /\ change.kind = "Set"
          /\ Len(change.key) >= 6
          /\ SubSeq(change.key, 1, 6) = TpPrefix
  THEN <<Envelope("CIRCUIT_PAYLOAD", self.requester, self.node_id, self.circuit_id,
                  change.value)>>
  ELSE <<>>

\* the envelopes of the first n records of a batch, in the order of the records
RECURSIVE InOrder(_, _, _)
InOrder(self, changes, n) ==
  IF n = 0 THEN <<>>
  ELSE InOrder(self, changes, n - 1) \o EnvelopeFor(self, changes[n])

\* the number of leading records of the last batch whose handling returned Ok
OkPrefix ==
  CHOOSE n \in 0..Len(last.changes) :
    /\ Reached(LastProcessor, last.changes, last.queues, n + 1)
    /\ n < Len(last.changes) => ~Reached(LastProcessor, last.changes, last.queues, n + 2)

\* C13: the envelopes a batch publishes are those of its records taken in
\* the order received, up to the first record whose handling fails: the same
\* relative order as the records, a repeated record giving a repeated envelope.
C13_BatchOrderKept ==
  (dispatcher = "event_handler" /\ last.kind = "batch") =>
    last.envs = InOrder(LastProcessor, last.changes, OkPrefix)

C13_Witness ==
  /\ dispatcher = "event_handler"
  /\ last.kind = "batch"
  /\ last.changes = <<SetChange(PayloadKey, <<1, 2>>), SetChange(TpPrefix, <<7>>)>>
  /\ Len(last.envs) = 2
  /\ last.envs[1].field_type = "CIRCUIT_PAYLOAD"
  /\ last.envs[2].field_type = "CIRCUIT_CREATED"

\* C14: the handling of an admin event is one step of the Admin Stream's
\* closure, publish included: it appends the event's envelopes after every
\* envelope published before and changes none of them, so the envelopes of
\* admin events are published in the arrival order of their events.
C14_AdminEventsInArrivalOrder ==
  [][AdminStep =>
       /\ last'.kind = "admin"
       /\ published' = published \o last'.envs
       /\ SubSeq(published', 1, Len(published)) = published]_vars

C14_Witness ==
  /\ dispatcher = "event_handler"
  /\ last.kind = "admin"
  /\ nAdmin = 2
  /\ Len(published) = 2
  /\ published[1].field_type = "PROPOSAL_SUBMIT"
  /\ published[2].field_type = "PROPOSAL_VOTE"
  /\ last.envs = <<published[2]>>

\* C15: when the handler of an inbound message (an admin event or a batch of
\* state changes) returns an error, the stream that received the message is
\* still connected, so that its next message is handled.
C15_HandlerErrorKeepsStream ==
  /\ (last.kind = "admin" /\ last.result = "Err") => admin = "Connected"
  /\ (last.kind = "batch" /\ last.result = "Err") =>
       streams[last.stream].state = "Connected"

C15_Witness ==
  /\ dispatcher = "event_handler"
  /\ last.kind = "admin"
  /\ last.event.type = "ProposalSubmitted"
  /\ last.queues = <<"reject">>
  /\ last.result = "Err"
  /\ admin = "Connected"
  /\ nAdmin = 1

\* the state an on_error closure leaves its stream in, by the error
AfterError(err) ==
  IF err \in {"ParserError", "ReconnectError"} THEN "Closed" ELSE "Connecting"

\* C16: a connected stream (the Admin Stream or a Circuit State Stream) stops
\* being connected only by an error delivered to its on_error closure (or,
\* for a Circuit State Stream, by its message handler aborting): a parser
\* error or a reconnect error closes it, any other error restarts the
\* connection; a closed stream stays closed.
C16_ErrorClassification ==
  [][/\ (admin = "Connected" /\ admin' # "Connected") =>
         /\ last'.kind = "error"
         /\ last'.stream = 0
         /\ admin' = AfterError(last'.error)
     /\ \A i \in 1..Len(streams) :
         (streams[i].state = "Connected" /\ streams'[i].state \notin {"Connected", "Aborted"}) =>
           /\ last'.kind = "error"
           /\ last'.stream = i
           /\ streams'[i].state = AfterError(last'.error)
     /\ (last'.kind = "error" /\ last' # last) =>
         IF last'.stream = 0 THEN admin' = AfterError(last'.error)
         ELSE streams'[last'.stream].state = AfterError(last'.error)
     /\ admin = "Closed" => admin' = "Closed"
     /\ \A i \in 1..Len(streams) :
         streams[i].state = "Closed" => streams'[i].state = "Closed"]_vars

C16_Witness ==
  /\ last.kind = "error"
  /\ last.stream = 0
  /\ last.error = "ReconnectError"
  /\ admin = "Closed"
  /\ nOpens = 1
  /\ Len(streams) = 1
  /\ streams[1].state = "Connecting"

\* the last published envelopes are those of the last handler call
PublishedLast ==
  /\ Len(published) >= Len(last.envs)
  /\ \A k \in 1..Len(last.envs) :
       published[Len(published) - Len(last.envs) + k] = last.envs[k]

C19_OneEnvelopeAsBuilt ==
  /\ last.kind = "admin" =>
       /\ Len(last.envs) <= 1
       /\ PublishedLast
       /\ \A k \in 1..Len(last.envs) :
            /\ last.envs[k].field_type = MessageTypeOf(last.event.type)
            /\ last.envs[k].circuit_id = last.event.circuit_id
            /\ last.envs[k].data = <<>>
  /\ last.kind = "batch" =>
       /\ Len(last.envs) <= Len(last.changes)
       /\ PublishedLast
       /\ \A k \in 1..Len(last.envs) :
            \E j \in 1..Len(last.changes) :
              <<last.envs[k]>> = EnvelopeFor(LastProcessor, last.changes[j])

C19_Witness ==
  /\ dispatcher = "event_handler"
  /\ last.kind = "batch"
  /\ last.changes = <<SetChange(PayloadKey, <<1, 2>>)>>
  /\ Len(last.envs) = 1
  /\ Len(published) = 2
  /\ published[2].field_type = "CIRCUIT_PAYLOAD"
  /\ published[2].data = <<1, 2>>

\* C20: after the handling of any inbound message (an admin event or a
\* state-change record, whatever it holds and whatever the queue does) the
\* stream that received it is still served: the handler has not aborted.
C20_NoEventStopsListener ==
  /\ last.kind = "admin" => admin = "Connected"
  /\ last.kind = "batch" => streams[last.stream].state = "Connected"

C23_OnePublishPerProducer ==
  /\ \A h1 \in Loops, h2 \in Loops :
       (h1 # h2 /\ handlers[h1].at = "sending" /\ handlers[h2].at = "sending") =>
         handlers[h1].producer # handlers[h2].producer
  /\ \A h \in Loops :
       handlers[h].at = "sending" => handlers[h].producer \in 1..producers

C23_Witness ==
  /\ handlers["admin"].at = "sending"
  /\ handlers["stream"].at = "sending"
  /\ handlers["admin"].producer = 2
  /\ handlers["stream"].producer = 1

\* C24: no closure is ever inside a queue publish: every receive loop is
\* between two frames at all times, the publish being done elsewhere.
C24_NoInlinePublish ==
  \A h \in Loops : handlers[h].at = "idle"

\* C26: a ProposalSubmitted event whose application metadata does not parse
\* (a missing alias included) returns an error and publishes nothing, opens
\* nothing, and leaves the Admin Stream connected for the events after it.
C26_SubmitBadMetadataDropped ==
  (last.kind = "admin" /\ last.event.type = "ProposalSubmitted"
     /\ ~MetadataParses(last.event.metadata)) =>
    /\ last.result = "Err"
    /\ last.envs = <<>>
    /\ last.ws = <<>>
    /\ PublishedLast
    /\ admin = "Connected"

C26_Witness ==
  /\ dispatcher = "event_handler"
  /\ last.kind = "admin"
  /\ last.event.type = "ProposalSubmitted"
  /\ last.event.metadata = "garbage"
  /\ last.queues = <<"ok">>
  /\ last.result = "Err"
  /\ nAdmin = 2
  /\ Len(published) = 1
  /\ admin = "Connected"

\* C27: a CircuitReady event with a roster service for the local node whose
\* metadata does not parse returns an error, publishes no envelope and opens
\* no Circuit State Stream (so that nothing is deployed for it), and leaves
\* the Admin Stream connected for the events after it.
C27_ReadyBadMetadataDropped ==
  (last.kind = "admin" /\ last.event.type = "CircuitReady"
     /\ ~NoLocalService(last.event) /\ ~MetadataParses(last.event.metadata)) =>
    /\ last.result = "Err"
    /\ last.envs = <<>>
    /\ last.ws = <<>>
    /\ admin = "Connected"

C27_Witness ==
  /\ dispatcher = "event_handler"
  /\ last.kind = "admin"
  /\ last.event.type = "CircuitReady"
  /\ last.event.roster = <<Service("s2", <<"n1">>)>>
  /\ last.event.metadata = "garbage"
  /\ last.queues = <<"ok">>
  /\ last.result = "Err"
  /\ published = <<>>
  /\ streams = <<>>
  /\ admin = "Connected"

\* the records `recs` are one per entry of `entries`, in the same order, each
\* with the circuit id and the status Pending
OnePerEntry(recs, entries, circuit_id) ==
  /\ Len(recs) = Len(entries)
  /\ \A k \in 1..Len(recs) :
       /\ recs[k].circuit_id = circuit_id
       /\ recs[k].status = "Pending"

\* C29: for every ProposalSubmitted event, the translator (parse_splinter_nodes
\* and parse_splinter_services) gives one member record per node of the member
\* list and one service record per roster entry, in the same order, each with
\* the proposal's circuit_id and the status Pending, and each service record
\* has the allowed_nodes of its roster entry in the original order; the
\* records of a handler call that got to the translator are these records.
C29_OneRecordPerEntry ==
  (last.kind = "admin" /\ last.event.type = "ProposalSubmitted") =>
    LET ev == last.event
        services == parse_splinter_services(ev.circuit_id, ev.roster)
        nodes == parse_splinter_nodes(ev.circuit_id, last.members)
    IN /\ OnePerEntry(services, ev.roster, ev.circuit_id)
       /\ \A k \in 1..Len(services) :
            /\ services[k].service_id = ev.roster[k].service_id
            /\ services[k].allowed_nodes = ev.roster[k].allowed_nodes
       /\ OnePerEntry(nodes, last.members, ev.circuit_id)
       /\ \A k \in 1..Len(nodes) :
            /\ nodes[k].node_id = last.members[k].node_id
            /\ nodes[k].endpoint = last.members[k].endpoint
       /\ (last.queues # <<"down">> /\ MetadataParses(ev.metadata)) =>
            /\ last.records.services = services
            /\ last.records.nodes = nodes

C29_Witness ==
  /\ last.kind = "admin"
  /\ last.event.type = "ProposalSubmitted"
  /\ last.event.circuit_id = "c2"
  /\ Len(last.event.roster) = 3
  /\ last.members = <<SplinterNode("n2", "tcp://n2"), SplinterNode("n1", "tcp://n1")>>
  /\ last.result = "Ok"
  /\ Len(last.records.services) = 3
  /\ last.records.services[2].allowed_nodes = <<"n2", "n1">>
  /\ last.records.nodes[1].node_id = "n2"
  /\ last.records.nodes[2].node_id = "n1"

\* C30: in the publishing dispatcher, a CircuitReady event opens its Circuit
\* State Stream only after its PROPOSAL_READY envelope was published: a call
\* that opened a stream has published exactly that envelope, and a call whose
\* producer could not be created, or whose PROPOSAL_READY send was rejected,
\* returns an error, publishes nothing and opens no stream (so that nothing is
\* deployed for it).
C30_StreamAfterReadyPublished ==
  (last.kind = "admin" /\ dispatcher = "event_handler"
     /\ last.event.type = "CircuitReady") =>
    /\ last.ws # <<>> =>
         /\ last.queues = <<"ok">>
         /\ Len(last.envs) = 1
         /\ last.envs[1].field_type = "PROPOSAL_READY"
         /\ last.envs[1].circuit_id = last.event.circuit_id
         /\ PublishedLast
    /\ last.queues = <<"down">> =>
         last.result = "Err" /\ last.envs = <<>> /\ last.ws = <<>>
    /\ (last.queues = <<"reject">> /\ Qualifies(last.event)) =>
         last.result = "Err" /\ last.envs = <<>> /\ last.ws = <<>>

C30_Witness ==
  /\ dispatcher = "event_handler"
  /\ last.kind = "admin"
  /\ Qualifies(last.event)
  /\ last.queues = <<"reject">>
  /\ last.start_ok
  /\ last.result = "Err"
  /\ last.ws = <<>>
  /\ streams = <<>>
  /\ published = <<>>

\* C28: when a step of startup fails (the configuration cannot be built, a key
\* step fails, the node lookup fails), the process has exited with an error
\* status and the Admin Stream was never opened: no event was handled and no
\* Circuit State Stream exists; the Admin Stream is open, or was, only when
\* configuration, key and node identity had all been obtained.
C28_StartupFailureIsFatal ==
  /\ process.failed # "none" =>
       /\ process.state = "Exited"
       /\ process.status = 1
       /\ admin = "NotStarted"
       /\ nAdmin = 0
       /\ streams = <<>>
  /\ admin # "NotStarted" =>
       /\ process.failed = "none"
       /\ process.obtained = {"config", "key", "node"}

C28_Witness ==
  /\ process.state = "Exited"
  /\ process.status = 1
  /\ process.failed = "get_node"
  /\ process.obtained = {"config", "key"}
  /\ admin = "NotStarted"

\* C31: when the handling of record k of a batch returns an error (every
\* record before it having returned Ok), the batch returns the error and has
\* published the envelopes of the records before k, in order, and nothing for
\* record k or for the records after it.
C31_StopsAtFirstError ==
  (dispatcher = "event_handler" /\ last.kind = "batch") =>
    \A k \in 1..Len(last.changes) :
      (/\ Reached(LastProcessor, last.changes, last.queues, k)
       /\ handle_state_change(LastProcessor, last.changes[k], last.queues[k]).result
            = "Err") =>
        /\ last.result = "Err"
        /\ last.envs = InOrder(LastProcessor, last.changes, k - 1)
        /\ PublishedLast

C31_Witness ==
  /\ dispatcher = "event_handler"
  /\ last.kind = "batch"
  /\ last.changes = <<SetChange(TpPrefix, <<7>>), SetChange(PayloadKey, <<1, 2>>)>>
  /\ last.queues = <<"reject", "ok">>
  /\ last.result = "Err"
  /\ last.envs = <<>>
  /\ Len(published) = 1
  /\ streams[1].state = "Connected"

\* a Delete record, or a Set record of a key of six characters or more that
\* is neither the contract address nor starts with the prefix
IgnoredRecord(self, change) ==
  \/ change.kind = "Delete"
  \/ /\ change.kind = "Set"
     /\ Len(change.key) >= 6
     /\ EnvelopeFor(self, change) = <<>>

\* C32: a batch of Delete records and unrecognized Set records returns Ok in
\* every state of the outbound queue: none of its records returns an error,
\* so every record of the batch is handled.
C32_IgnoredRecordsNeverFail ==
  (/\ dispatcher = "event_handler"
   /\ last.kind = "batch"
   /\ \A k \in 1..Len(last.changes) : IgnoredRecord(LastProcessor, last.changes[k])) =>
    last.result = "Ok"

\* C33: the handling of every batch returns a result, Ok or an error, whatever
\* its records are, a Set with a key of fewer than six characters included:
\* the handler never aborts.
C33_ClassificationTotal ==
  last.kind = "batch" =>
    /\ last.result \in {"Ok", "Err"}
    /\ streams[last.stream].state # "Aborted"

\* the step handles one frame of a Circuit State Stream
BatchStep == nBatches' = nBatches + 1

\* C34: a stream's processor holds the circuit_id, the requester node id and
\* the hex requester key of the CircuitReady event whose handling opened the
\* stream; no later step (an admin event, a frame or an error of any stream)
\* changes the processor or the endpoint of a stream; and every envelope a
\* frame of a stream publishes carries the three values of that stream's
\* processor.
C34_EnvelopesCarryCapturedIds ==
  [][/\ Len(streams') >= Len(streams)
     /\ \A i \in 1..Len(streams) :
          /\ streams'[i].processor = streams[i].processor
          /\ streams'[i].endpoint = streams[i].endpoint
     /\ \A i \in (Len(streams) + 1)..Len(streams') :
          /\ last'.kind = "admin"
          /\ last'.event.type = "CircuitReady"
          /\ streams'[i].processor.circuit_id = last'.event.circuit_id
          /\ streams'[i].processor.node_id = last'.event.requester_node_id
          /\ IsHexOf(streams'[i].processor.requester, last'.event.requester)
     /\ BatchStep =>
          \A k \in 1..Len(last'.envs) :
            /\ last'.envs[k].circuit_id = streams[last'.stream].processor.circuit_id
            /\ last'.envs[k].node_id = streams[last'.stream].processor.node_id
            /\ last'.envs[k].key = streams[last'.stream].processor.requester
            /\ published'[Len(published) + k] = last'.envs[k]]_vars

C34_Witness ==
  /\ dispatcher = "event_handler"
  /\ Len(streams) = 2
  /\ streams[1].processor.circuit_id = "c2"
  /\ streams[2].processor.circuit_id = "c1"
  /\ streams[1].processor.requester # streams[2].processor.requester
  /\ streams[2].state = "Connected"
  /\ last.kind = "batch"
  /\ last.stream = 1
  /\ Len(last.envs) = 1
  /\ last.envs[1].circuit_id = "c2"
  /\ last.envs[1].node_id = "n3"

\* the service lists the local node in allowed_nodes
ListsLocalNode(service) ==
  \E k \in 1..Len(service.allowed_nodes) : service.allowed_nodes[k] = LocalNodeId

\* C35: the handling of a CircuitReady event opens at most one stream, and
\* the stream it opens has, as endpoint and as deployment target, the event's
\* circuit and the service_id of the first roster service that lists the
\* local node, whatever services after it list the node too.
C35_FirstMatchingService ==
  (last.kind = "admin" /\ last.event.type = "CircuitReady") =>
    /\ Len(last.ws) <= 1
    /\ last.ws # <<>> =>
         \E i \in 1..Len(last.event.roster) :
           /\ ListsLocalNode(last.event.roster[i])
           /\ \A j \in 1..(i - 1) : ~ListsLocalNode(last.event.roster[j])
           /\ last.ws[1].endpoint =
                <<last.event.circuit_id, last.event.roster[i].service_id>>
           /\ last.ws[1].target = last.ws[1].endpoint
           /\ \E s \in 1..Len(streams) :
                /\ streams[s].endpoint = last.ws[1].endpoint
                /\ streams[s].target = last.ws[1].target

C35_Witness ==
  /\ last.kind = "admin"
  /\ last.event.type = "CircuitReady"
  /\ Len(last.event.roster) = 3
  /\ ListsLocalNode(last.event.roster[2])
  /\ ListsLocalNode(last.event.roster[3])
  /\ Len(last.ws) = 1
  /\ last.ws[1].endpoint = <<last.event.circuit_id, "s1">>
  /\ Len(streams) = 1

\* C36: every envelope the handling of a vote, accept or reject event
\* publishes has as voter the hex encoding of the signer's key, as voter node
\* id the node id of the first entry of the vote list with the signer's key,
\* and the circuit_id of the event; with the signer in the vote list and the
\* queue taking the record, there is exactly one such envelope.
C36_VoteEnvelopeFields ==
  (last.kind = "admin" /\ last.event.type \in VoteTypes) =>
    /\ \A k \in 1..Len(last.envs) :
         /\ IsHexOf(last.envs[k].key, last.event.signer)
         /\ last.envs[k].circuit_id = last.event.circuit_id
         /\ \E i \in 1..Len(last.event.votes) :
              /\ last.event.votes[i].public_key = last.event.signer
              /\ \A j \in 1..(i - 1) :
                   last.event.votes[j].public_key # last.event.signer
              /\ last.envs[k].node_id = last.event.votes[i].voter_node_id
    /\ (/\ dispatcher = "event_handler"
        /\ ~MissingVoter(last.event)
        /\ last.queues = <<"ok">>) =>
         Len(last.envs) = 1 /\ PublishedLast

C36_Witness ==
  /\ last.kind = "admin"
  /\ last.event.type = "ProposalRejected"
  /\ last.event.signer = PK2
  /\ last.event.votes = <<VoteRecord(PK2, "n2"), VoteRecord(PK2, "n3")>>
  /\ Len(last.envs) = 1
  /\ last.envs[1].key = <<"f", "f">>
  /\ last.envs[1].node_id = "n2"
  /\ last.envs[1].circuit_id = "c2"

\* C37: the outcome of handling an admin event (the result, the envelopes
\* published, the stream opened) is the outcome the dispatcher gives for that
\* event, the local node id and the answers of the queue and of the reactor,
\* in every state: whatever was handled, published or opened before, the
\* envelopes are appended to those published and the stream to those opened.
C37_DispatcherStateless ==
  [][AdminStep =>
       /\ last'.kind = "admin"
       /\ LET out == Dispatch(last'.event, last'.queues[1], last'.start_ok)
          IN /\ last'.result = out.result
             /\ last'.envs = out.envs
             /\ last'.ws = out.ws
             /\ published' = published \o out.envs
             /\ streams' = streams \o out.ws]_vars

C37_Witness ==
  /\ nAdmin = 2
  /\ last.kind = "admin"
  /\ last.event.type = "CircuitReady"
  /\ last.event.circuit_id = "c2"
  /\ Len(last.ws) = 1
  /\ Len(streams) = 2
  /\ streams[1].endpoint = streams[2].endpoint
  /\ streams[1].processor = streams[2].processor
  /\ streams[1].state = "Connected"
  /\ streams[1].deploys = 1
  /\ streams[2].state = "Connected"
  /\ streams[2].deploys = 1

\* C38: for the admin event handled last, with the queue reachable and the
\* send succeeding, the handler of event_handler and the handler of
\* authorization_handler return the same result and hand the same stream
\* (endpoint, deployment target and processor) to the reactor, or none; the
\* authorization handler publishes nothing; and the call recorded is the
\* outcome they agree on.
C38_DispatchersAgree ==
  (last.kind = "admin" /\ last.queues = <<"ok">>) =>
    LET e == process_admin_event(last.event, LocalNodeId, "ok", last.start_ok)
        a == auth_process_admin_event(last.event, LocalNodeId, last.start_ok)
    IN /\ e.result = a.result
       /\ e.ws = a.ws
       /\ a.envs = <<>>
       /\ last.result = a.result
       /\ last.ws = a.ws
       /\ dispatcher = "authorization_handler" => last.envs = <<>>

C38_Witness ==
  /\ dispatcher = "authorization_handler"
  /\ last.kind = "admin"
  /\ last.queues = <<"ok">>
  /\ Qualifies(last.event)
  /\ Len(last.ws) = 1
  /\ last.ws = process_admin_event(last.event, LocalNodeId, "ok", TRUE).ws
  /\ process_admin_event(last.event, LocalNodeId, "ok", TRUE).envs # <<>>
  /\ published = <<>>
  /\ Len(streams) = 1

====
